---- MODULE Spec2Model ----
(***************************************************************************)
(* The `solc --standard-json` output (src/solc/standard_json/output/mod.rs)*)
(* as a state machine: Output::try_to_project with the dependency          *)
(* resolution pass (preprocess_dependencies, preprocess_dependency_level)  *)
(* and Output::preprocess_ast.                                             *)
(*                                                                         *)
(* Strings that are ordered or concatenated by the code (file paths,       *)
(* contract names, data keys, instruction operands) are sequences of       *)
(* character codes; Option<T> is a sequence of length 0 or 1; a BTreeMap   *)
(* is a function whose domain is its key set, iterated in key order.       *)
(***************************************************************************)
EXTENDS Integers, Sequences, FiniteSets, TLC

VARIABLES
    output,             \* the Output (`self`): contracts, sources, errors
    pc,                 \* position inside try_to_project, "idle" between calls
    pipeline,           \* the `pipeline` argument of the running call
    libraries,          \* the `libraries` argument of the running call
    debug_config,       \* the `debug_config` argument of the running call
    hash_path_mapping,  \* the local of preprocess_dependencies
    todo,               \* the contracts the running loop has still to visit
    project_contracts,  \* the local of try_to_project
    result,             \* what the last finished call returned
    previous,           \* summary of the call finished before the running one
    output0,            \* the Output as it was when the last call started
    calls               \* number of calls made so far

vars == <<output, pc, pipeline, libraries, debug_config, hash_path_mapping,
          todo, project_contracts, result, previous, output0, calls>>

\* Number of public calls (try_to_project, preprocess_ast) in one behaviour.
MaxCalls == 2

----------------------------------------------------------------------------
(* Option, strings, ordered maps *)

None == <<>>
Some(x) == <<x>>
IsSome(o) == Len(o) = 1
Unwrap(o) == o[1]

EmptyMap == <<>>
MapInsert(m, k, v) == [x \in DOMAIN m \cup {k} |-> IF x = k THEN v ELSE m[x]]

\* The ':' of format!("{path}:{name}").
Colon == 58

RECURSIVE StrLess(_, _)
\* Ord for String: byte-wise lexicographic order.
StrLess(a, b) ==
    IF b = <<>> THEN FALSE
    ELSE IF a = <<>> THEN TRUE
    ELSE IF a[1] /= b[1] THEN a[1] < b[1]
    ELSE StrLess(Tail(a), Tail(b))

\* Order of the nested iteration `for (path, contracts) .. for (name, contract)`.
PairLess(p, q) ==
    \/ StrLess(p[1], q[1])
    \/ p[1] = q[1] /\ StrLess(p[2], q[2])

RECURSIVE SortedKeys(_)
\* BTreeMap::iter over a key set: ascending keys.
SortedKeys(S) ==
    IF S = {} THEN <<>>
    ELSE LET m == CHOOSE x \in S : \A y \in S : x = y \/ StrLess(x, y)
         IN <<m>> \o SortedKeys(S \ {m})

RECURSIVE SortedPairs(_)
SortedPairs(S) ==
    IF S = {} THEN <<>>
    ELSE LET m == CHOOSE x \in S : \A y \in S : x = y \/ PairLess(x, y)
         IN <<m>> \o SortedPairs(S \ {m})

\* format!("{path}:{name}")
FullPath(path, name) == path \o <<Colon>> \o name

----------------------------------------------------------------------------
(* Assembly, Data, Instruction: the collaborators of the resolver *)

\* The reserved key of the runtime code in an assembly's data section.
RuntimeKey == <<48>>

DataAliasNames == {"PUSH [$]", "PUSH #[$]", "PUSH data"}

IsDataAlias(instruction) ==
    instruction.name \in DataAliasNames /\ IsSome(instruction.value)

IsAssembly(data) == data.kind = "assembly"

RECURSIVE keccak256(_)
\* Content hash: a digest of code and data, recursively; the identity
\* (full_path) is not part of it.
keccak256(assembly) ==
    [code |-> assembly.code,
     data |-> IF assembly.data = None THEN None
              ELSE LET d == Unwrap(assembly.data)
                   IN Some([k \in DOMAIN d |->
                              IF IsAssembly(d[k])
                              THEN [kind |-> "assembly",
                                    digest |-> keccak256(d[k].assembly)]
                              ELSE d[k]])]

set_full_path(assembly, full_path) ==
    [assembly EXCEPT !.full_path = Some(full_path)]

RECURSIVE ScanDependencies(_, _, _, _, _)
\* One scan of a data section in key order: nested assemblies (not the
\* runtime slot) must be found in the mapping, raw entries are kept when
\* their hash is known.
ScanDependencies(keys, data, full_path, mapping, acc) ==
    IF keys = <<>> THEN [ok |-> TRUE, mapping |-> acc]
    ELSE LET k == Head(keys)
             d == data[k]
         IN IF IsAssembly(d)
            THEN IF k = RuntimeKey
                 THEN ScanDependencies(Tail(keys), data, full_path, mapping, acc)
                 ELSE LET hash == keccak256(d.assembly)
                      IN IF hash \in DOMAIN mapping
                         THEN ScanDependencies(Tail(keys), data, full_path, mapping,
                                               MapInsert(acc, k, mapping[hash]))
                         ELSE [ok |-> FALSE,
                               error |-> [kind |-> "UnresolvedDependency",
                                          hash |-> hash, path |-> full_path]]
            ELSE IF d.hash \in DOMAIN mapping
                 THEN ScanDependencies(Tail(keys), data, full_path, mapping,
                                       MapInsert(acc, k, mapping[d.hash]))
                 ELSE ScanDependencies(Tail(keys), data, full_path, mapping, acc)

DependenciesPass(data, full_path, mapping) ==
    IF data = None THEN [ok |-> TRUE, mapping |-> EmptyMap]
    ELSE ScanDependencies(SortedKeys(DOMAIN Unwrap(data)), Unwrap(data),
                          full_path, mapping, EmptyMap)

deploy_dependencies_pass(assembly, full_path, mapping) ==
    DependenciesPass(assembly.data, full_path, mapping)

\* data.get("0").get_assembly(): the runtime sub-assembly, if any.
RuntimeAssembly(assembly) ==
    IF assembly.data = None THEN None
    ELSE LET d == Unwrap(assembly.data)
         IN IF RuntimeKey \in DOMAIN d /\ IsAssembly(d[RuntimeKey])
            THEN Some(d[RuntimeKey].assembly)
            ELSE None

runtime_dependencies_pass(assembly, full_path, mapping) ==
    IF RuntimeAssembly(assembly) = None THEN [ok |-> TRUE, mapping |-> EmptyMap]
    ELSE DependenciesPass(Unwrap(RuntimeAssembly(assembly)).data, full_path, mapping)

\* The instructions the rewriter returns an error on.
RejectedNames == {"FAIL_REWRITE"}

\* The slice is rewritten in place and in order: on an error the
\* instructions before the rejected one stay rewritten.
replace_data_aliases(instructions, mapping) ==
    LET rejected == {i \in DOMAIN instructions : instructions[i].name \in RejectedNames}
        stop == IF rejected = {} THEN Len(instructions) + 1
                ELSE CHOOSE i \in rejected : \A j \in rejected : i <= j
        rewritten ==
            [i \in DOMAIN instructions |->
                IF i < stop
                   /\ IsDataAlias(instructions[i])
                   /\ Unwrap(instructions[i].value) \in DOMAIN mapping
                THEN [instructions[i] EXCEPT !.value = Some(mapping[Unwrap(@)])]
                ELSE instructions[i]]
    IN IF rejected = {}
       THEN [ok |-> TRUE, instructions |-> rewritten]
       ELSE [ok |-> FALSE, error |-> [kind |-> "RewriteError"],
             instructions |-> rewritten]

----------------------------------------------------------------------------
(* Output::preprocess_dependency_level and Output::preprocess_dependencies *)

\* Lines 219-224: assembly.code.as_deref_mut() rewritten with the deploy
\* mapping; the assembly left behind, and the error of the `?` if any.
RewriteDeployCode(assembly, mapping) ==
    IF assembly.code = None THEN [ok |-> TRUE, assembly |-> assembly]
    ELSE LET replaced == replace_data_aliases(Unwrap(assembly.code), mapping)
             left == [assembly EXCEPT !.code = Some(replaced.instructions)]
         IN IF replaced.ok THEN [ok |-> TRUE, assembly |-> left]
            ELSE [ok |-> FALSE, error |-> replaced.error, assembly |-> left]

\* Lines 228-239: data["0"].get_assembly_mut().code.as_deref_mut() rewritten
\* with the runtime mapping; the assembly left behind, and the error of the
\* `?` if any.
RewriteRuntimeCode(assembly, mapping) ==
    IF RuntimeAssembly(assembly) = None THEN [ok |-> TRUE, assembly |-> assembly]
    ELSE IF Unwrap(RuntimeAssembly(assembly)).code = None
    THEN [ok |-> TRUE, assembly |-> assembly]
    ELSE LET runtime == Unwrap(RuntimeAssembly(assembly))
             replaced == replace_data_aliases(Unwrap(runtime.code), mapping)
             rewritten == [runtime EXCEPT !.code = Some(replaced.instructions)]
             left == [assembly EXCEPT !.data =
                        Some([Unwrap(@) EXCEPT ![RuntimeKey] =
                                [kind |-> "assembly", assembly |-> rewritten]])]
         IN IF replaced.ok THEN [ok |-> TRUE, assembly |-> left]
            ELSE [ok |-> FALSE, error |-> replaced.error, assembly |-> left]

\* Mutant: the deploy code is not rewritten.
preprocess_dependency_level_NoDeployRewrite(full_path, assembly, mapping) ==
    LET named == set_full_path(assembly, full_path)
        deploy == deploy_dependencies_pass(named, full_path, mapping)
    IN IF ~deploy.ok
       THEN [ok |-> FALSE, error |-> deploy.error, assembly |-> named]
       ELSE LET runtime == runtime_dependencies_pass(named, full_path, mapping)
            IN IF ~runtime.ok
               THEN [ok |-> FALSE, error |-> runtime.error, assembly |-> named]
               ELSE RewriteRuntimeCode(named, runtime.mapping)

\* Mutant: the runtime code is rewritten with the deploy mapping as well.
preprocess_dependency_level_SharedMapping(full_path, assembly, mapping) ==
    LET named == set_full_path(assembly, full_path)
        deploy == deploy_dependencies_pass(named, full_path, mapping)
    IN IF ~deploy.ok
       THEN [ok |-> FALSE, error |-> deploy.error, assembly |-> named]
       ELSE LET deployed == RewriteDeployCode(named, deploy.mapping)
            IN IF ~deployed.ok THEN deployed
               ELSE LET runtime == runtime_dependencies_pass(deployed.assembly,
                                                             full_path, mapping)
                    IN IF ~runtime.ok
                       THEN [ok |-> FALSE, error |-> runtime.error,
                             assembly |-> deployed.assembly]
                       ELSE RewriteRuntimeCode(deployed.assembly,
                                               deploy.mapping @@ runtime.mapping)

\* The assembly is rewritten in place, so the record carries what is left
\* in the report when the function returns, on success and on failure; each
\* of the four `?` (lines 218, 223, 227, 238) returns at once.
preprocess_dependency_level(full_path, assembly, mapping) ==
    LET named == set_full_path(assembly, full_path)
        deploy == deploy_dependencies_pass(named, full_path, mapping)
    IN IF ~deploy.ok
       THEN [ok |-> FALSE, error |-> deploy.error, assembly |-> named]
       ELSE LET deployed == RewriteDeployCode(named, deploy.mapping)
            IN IF ~deployed.ok THEN deployed
               ELSE LET runtime == runtime_dependencies_pass(deployed.assembly,
                                                             full_path, mapping)
                    IN IF ~runtime.ok
                       THEN [ok |-> FALSE, error |-> runtime.error,
                             assembly |-> deployed.assembly]
                       ELSE RewriteRuntimeCode(deployed.assembly, runtime.mapping)

\* contract.evm.as_ref().and_then(|evm| evm.assembly.as_ref())
ContractAssembly(contract) ==
    IF contract.evm = None THEN None ELSE Unwrap(contract.evm).assembly

\* The (path, name) pairs of `files`, in iteration order.
ContractPairs(files) ==
    SortedPairs(UNION {{<<path, name>> : name \in DOMAIN files[path]} :
                        path \in DOMAIN files})

\* Mutant: the table is created inside the loop.
HashCollect_FreshMap(mapping, path, name, contract) ==
    IF ContractAssembly(contract) = None THEN mapping
    ELSE MapInsert(EmptyMap, keccak256(Unwrap(ContractAssembly(contract))),
                   FullPath(path, name))

\* Mutant: an entry already in the table is kept.
HashCollect_FirstWins(mapping, path, name, contract) ==
    IF ContractAssembly(contract) = None THEN mapping
    ELSE IF keccak256(Unwrap(ContractAssembly(contract))) \in DOMAIN mapping THEN mapping
    ELSE MapInsert(mapping, keccak256(Unwrap(ContractAssembly(contract))),
                   FullPath(path, name))

\* One iteration of the first loop: lines 173-184.
HashCollect(mapping, path, name, contract) ==
    IF ContractAssembly(contract) = None THEN mapping
    ELSE MapInsert(mapping, keccak256(Unwrap(ContractAssembly(contract))),
                   FullPath(path, name))

RECURSIVE HashCollectAll(_, _, _)
\* The whole first loop over `pairs`.
HashCollectAll(mapping, files, pairs) ==
    IF pairs = <<>> THEN mapping
    ELSE HashCollectAll(
            HashCollect(mapping, Head(pairs)[1], Head(pairs)[2],
                        files[Head(pairs)[1]][Head(pairs)[2]]),
            files, Tail(pairs))

\* `files` with the assembly of one contract replaced.
WithAssembly(files, path, name, assembly) ==
    [files EXCEPT ![path][name].evm = Some([Unwrap(@) EXCEPT !.assembly = Some(assembly)])]

----------------------------------------------------------------------------
(* Output::try_to_project *)

\* serde_json::to_string_pretty(errors)
to_string_pretty(errors) == [json_pretty |-> errors]

\* Mutant: the diagnostics are dropped from the message.
MissingContractsMessage_AlwaysGeneric(errors) ==
    [text |-> "Unknown project assembling error"]

\* The message of the bail at lines 70-76.
MissingContractsMessage(errors) ==
    IF errors = None THEN [text |-> "Unknown project assembling error"]
    ELSE to_string_pretty(Unwrap(errors))

\* The IR texts the parser accepts (Object::parse).
ValidYul == {"object \"A\" { code { } }"}

ParseObject(ir_optimized) ==
    IF ir_optimized \in ValidYul
    THEN [ok |-> TRUE, object |-> [parsed |-> ir_optimized]]
    ELSE [ok |-> FALSE, error |-> [invalid |-> ir_optimized]]

\* Mutant: the text is cloned, not taken.
TakeIrOptimized_Clones(contract) == contract

\* contract.ir_optimized.take(): what is left in the contract.
TakeIrOptimized(contract) == [contract EXCEPT !.ir_optimized = None]

\* Mutant: the is_empty check is missing.
YulSkips_AbsentOnly(ir_optimized) == ir_optimized = None

\* Lines 87-93: whether the Yul branch leaves the loop body early.
YulSkips(ir_optimized) ==
    IF ir_optimized = None THEN TRUE ELSE Unwrap(ir_optimized) = ""

\* Lines 107-111: whether the EVMLA branch leaves the loop body early.
EvmlaSkips(contract) == ContractAssembly(contract) = None

\* debug_config.dump_yul(..)?: "failing" is a sink that returns an error.
DebugConfigs == {"none", "dumping", "failing"}

\* One iteration of the loop at lines 82-120 on the contract at (path, name):
\* what it leaves in the contract, and either nothing (continue), an error
\* (`?`), or the entry inserted into project_contracts.
ExtractContract(pipe, debug, path, name, contract) ==
    LET full_path == FullPath(path, name)
    IN IF pipe = "Yul"
       THEN LET taken == TakeIrOptimized(contract)
            IN IF YulSkips(contract.ir_optimized)
               THEN [kind |-> "continue", contract |-> taken]
               ELSE IF debug = "failing"
               THEN [kind |-> "error", contract |-> taken,
                     error |-> [kind |-> "DumpError", path |-> full_path]]
               ELSE LET parsed == ParseObject(Unwrap(contract.ir_optimized))
                    IN IF ~parsed.ok
                       THEN [kind |-> "error", contract |-> taken,
                             error |-> [kind |-> "ParsingError", path |-> full_path,
                                        error |-> parsed.error]]
                       ELSE [kind |-> "insert", contract |-> taken,
                             key |-> full_path,
                             value |-> [path |-> full_path,
                                        source |-> [kind |-> "yul",
                                                    source |-> Unwrap(contract.ir_optimized),
                                                    object |-> parsed.object],
                                        contract |-> taken]]
       ELSE IF EvmlaSkips(contract)
            THEN [kind |-> "continue", contract |-> contract]
            ELSE [kind |-> "insert", contract |-> contract,
                  key |-> full_path,
                  value |-> [path |-> full_path,
                             source |-> [kind |-> "evmla",
                                         assembly |-> Unwrap(ContractAssembly(contract))],
                             contract |-> contract]]

----------------------------------------------------------------------------
(* Output::preprocess_ast *)

\* ast.get_messages(): the messages an AST yields, or an error.
get_messages(ast) ==
    IF ast.fails THEN [ok |-> FALSE, error |-> [kind |-> "AstError"]]
    ELSE [ok |-> TRUE, messages |-> ast.messages]

\* message.push_contract_path(path)
push_contract_path(message, path) == [message EXCEPT !.contract_path = Some(path)]

RECURSIVE CollectMessages(_, _, _)
\* The loop at lines 140-148 over the sources in key order.
CollectMessages(paths, sources, messages) ==
    IF paths = <<>> THEN [ok |-> TRUE, messages |-> messages]
    ELSE LET path == Head(paths)
             source == sources[path]
         IN IF source.ast = None
            THEN CollectMessages(Tail(paths), sources, messages)
            ELSE LET got == get_messages(Unwrap(source.ast))
                 IN IF ~got.ok THEN [ok |-> FALSE, error |-> got.error]
                    ELSE CollectMessages(Tail(paths), sources,
                            messages \o [i \in DOMAIN got.messages |->
                                            push_contract_path(got.messages[i], path)])

\* Mutant: the collected messages replace the list.
ExtendErrors_Replaces(errors, messages) == Some(messages)

\* Lines 150-156.
ExtendErrors(errors, messages) ==
    IF errors = None THEN Some(messages) ELSE Some(Unwrap(errors) \o messages)

\* The whole of preprocess_ast: the Output it leaves and what it returns.
preprocess_ast(out) ==
    IF out.sources = None THEN [ok |-> TRUE, output |-> out]
    ELSE LET collected == CollectMessages(SortedKeys(DOMAIN Unwrap(out.sources)),
                                          Unwrap(out.sources), <<>>)
         IN IF ~collected.ok
            THEN [ok |-> FALSE, error |-> collected.error, output |-> out]
            ELSE [ok |-> TRUE,
                  output |-> [out EXCEPT !.errors = ExtendErrors(@, collected.messages)]]

----------------------------------------------------------------------------
(* The reports the model starts from *)

FileA == <<65>>
FileB == <<66>>
NameA == <<65>>
NameB == <<66>>
Key0 == RuntimeKey
Key1 == <<49>>
Key2 == <<50>>

Plain == [name |-> "ADD", value |-> None]
Rejected == [name |-> "FAIL_REWRITE", value |-> None]
Push(v) == [name |-> "PUSH", value |-> Some(v)]
Alias(k) == [name |-> "PUSH [$]", value |-> Some(k)]
AliasSize(k) == [name |-> "PUSH #[$]", value |-> Some(k)]

Asm(code, data) == [full_path |-> None, code |-> code, data |-> data]
Nested(assembly) == [kind |-> "assembly", assembly |-> assembly]
Raw(hash) == [kind |-> "hash", hash |-> hash]

\* No data section at all.
Leaf == Asm(Some(<<Plain>>), None)
\* An assembly no contract of any report has.
Foreign == Asm(Some(<<Plain, Plain>>), None)
\* Aliases, but nothing in the data section to resolve them with.
NoDeps == Asm(Some(<<Alias(Key1), Push(Key1)>>),
              Some(Key0 :> Nested(Asm(Some(<<AliasSize(Key1)>>), None))))
\* Creates Leaf from its deploy code and from its runtime code.
Mid == Asm(Some(<<Alias(Key1), Plain>>),
           Some(Key0 :> Nested(Asm(Some(<<Plain, AliasSize(Key1)>>),
                                   Some(Key1 :> Nested(Leaf))))
                @@ Key1 :> Nested(Leaf)))
\* Creates Mid; also refers to its own runtime slot.
Top == Asm(Some(<<Alias(Key1), Alias(Key0)>>),
           Some(Key0 :> Nested(Asm(Some(<<Plain, Alias(Key1)>>), None))
                @@ Key1 :> Nested(Mid)))
\* Its runtime slot holds the same code as Leaf.
SlotZero == Asm(Some(<<Alias(Key0)>>), Some(Key0 :> Nested(Leaf)))
\* Deploy dependencies resolve, the runtime dependency is unknown.
BadRuntime == Asm(Some(<<Alias(Key1)>>),
                  Some(Key0 :> Nested(Asm(Some(<<Alias(Key1)>>),
                                          Some(Key1 :> Nested(Foreign))))
                       @@ Key1 :> Nested(Leaf)))
\* The deploy dependency is unknown, the runtime dependency resolves.
BadDeploy == Asm(Some(<<Alias(Key1)>>),
                 Some(Key0 :> Nested(Asm(Some(<<Alias(Key1)>>),
                                         Some(Key1 :> Nested(Leaf))))
                      @@ Key1 :> Nested(Foreign)))
\* Raw data entries: one holds the hash of Leaf, one an unknown hash.
RawData == Asm(Some(<<Alias(Key1), Alias(Key2), Push(Key1)>>),
               Some(Key1 :> Raw(keccak256(Leaf)) @@ Key2 :> Raw(keccak256(Foreign))))
\* The deploy code holds an instruction the rewriter rejects, after an alias.
RejectedDeploy == Asm(Some(<<Alias(Key1), Rejected, Alias(Key1)>>),
                      Some(Key0 :> Nested(Asm(Some(<<Alias(Key1)>>),
                                              Some(Key1 :> Nested(Leaf))))
                           @@ Key1 :> Nested(Leaf)))
\* The runtime code holds an instruction the rewriter rejects.
RejectedRuntime == Asm(Some(<<Alias(Key1)>>),
                       Some(Key0 :> Nested(Asm(Some(<<Rejected>>), None))
                            @@ Key1 :> Nested(Leaf)))
\* A pure-data assembly: no code.
NoCode == Asm(None, Some(Key1 :> Nested(Leaf)))

GoodYul == "object \"A\" { code { } }"
BadYul == "object {"

Contract(ir_optimized, assembly) ==
    [ir_optimized |-> ir_optimized, evm |-> Some([assembly |-> assembly])]

Contracts ==
    { [ir_optimized |-> None, evm |-> None],
      Contract(Some(GoodYul), None),
      Contract(Some(GoodYul), Some(Leaf)),
      Contract(Some(""), Some(NoDeps)),
      Contract(Some(BadYul), Some(Mid)),
      Contract(Some(GoodYul), Some(Top)),
      Contract(Some(GoodYul), Some(SlotZero)),
      Contract(None, Some(BadRuntime)),
      Contract(Some(""), Some(BadDeploy)),
      Contract(Some(GoodYul), Some(RawData)),
      Contract(Some(GoodYul), Some(NoCode)),
      Contract(None, Some(RejectedDeploy)),
      Contract(Some(GoodYul), Some(RejectedRuntime)) }

\* The (file, name) places a report may have a contract at.
Slots == {<<FileA, NameA>>, <<FileA, NameB>>, <<FileB, NameA>>}

\* The `contracts` field built from a choice of contracts for some slots.
FilesOf(choice) ==
    [path \in {p[1] : p \in DOMAIN choice} |->
        [name \in {p[2] : p \in {q \in DOMAIN choice : q[1] = path}} |->
            choice[<<path, name>>]]]

ContractMaps ==
    UNION {{FilesOf(choice) : choice \in [used -> Contracts]} : used \in SUBSET Slots}

Message(text) == [message |-> text, contract_path |-> None]

ErrorLists == {None, Some(<<>>), Some(<<Message("E1")>>),
               Some(<<Message("E2"), Message("E1")>>)}

Ast(messages) == [fails |-> FALSE, messages |-> messages]
FailingAst == [fails |-> TRUE, messages |-> <<>>]

SourceMaps ==
    { EmptyMap,
      FileA :> [ast |-> Some(Ast(<<Message("W1"), Message("W2")>>))],
      FileA :> [ast |-> None] @@ FileB :> [ast |-> Some(Ast(<<Message("W1")>>))],
      FileA :> [ast |-> Some(Ast(<<Message("W2")>>))]
        @@ FileB :> [ast |-> Some(Ast(<<Message("W1")>>))],
      FileA :> [ast |-> Some(Ast(<<Message("W1")>>))] @@ FileB :> [ast |-> Some(FailingAst)] }

Outputs ==
    {[contracts |-> Some(files), sources |-> None, errors |-> None] :
        files \in ContractMaps}
    \cup
    {[contracts |-> c, sources |-> s, errors |-> e] :
        c \in {None, Some(FilesOf(<<FileA, NameA>> :> Contract(Some(GoodYul), Some(Leaf))))},
        s \in {None} \cup {Some(m) : m \in SourceMaps},
        e \in ErrorLists}

Pipelines == {"Yul", "EVMLA"}

Libraries == {FileA :> (NameA :> "0x01")}

----------------------------------------------------------------------------
(* The state machine *)

NoResult == [op |-> "none", pipeline |-> "none", ok |-> TRUE]

\* What is remembered of a finished call: which it was, whether it succeeded
\* and how many contracts its project had.
Summary(res) ==
    [op |-> res.op, pipeline |-> res.pipeline, ok |-> res.ok,
     entries |-> IF res.op = "try_to_project" /\ res.ok
                 THEN Cardinality(DOMAIN res.project.contracts) ELSE 0]

Init ==
    /\ output \in Outputs
    /\ pc = "idle"
    /\ pipeline = "none"
    /\ libraries = EmptyMap
    /\ debug_config = "none"
    /\ hash_path_mapping = EmptyMap
    /\ todo = <<>>
    /\ project_contracts = EmptyMap
    /\ result = NoResult
    /\ previous = Summary(NoResult)
    /\ output0 = output
    /\ calls = 0

\* The call returns: its locals and arguments are gone.
Return(res) ==
    /\ pc' = "idle"
    /\ result' = res
    /\ pipeline' = "none"
    /\ libraries' = EmptyMap
    /\ debug_config' = "none"
    /\ hash_path_mapping' = EmptyMap
    /\ todo' = <<>>
    /\ project_contracts' = EmptyMap

Failure(error) ==
    [op |-> "try_to_project", pipeline |-> pipeline, ok |-> FALSE, error |-> error]

\* try_to_project is called: line 63 selects the first step.
TryToProject(pipe, libs, debug) ==
    /\ pc = "idle"
    /\ calls < MaxCalls
    /\ calls' = calls + 1
    /\ output0' = output
    /\ pipeline' = pipe
    /\ libraries' = libs
    /\ debug_config' = debug
    /\ result' = NoResult
    /\ previous' = Summary(result)
    /\ pc' = IF pipe = "EVMLA" THEN "preprocess_dependencies" ELSE "files"
    /\ UNCHANGED <<output, hash_path_mapping, todo, project_contracts>>

\* preprocess_dependencies, lines 165-169.
PreprocessDependencies ==
    /\ pc = "preprocess_dependencies"
    /\ IF output.contracts = None
       THEN /\ pc' = "files"
            /\ UNCHANGED <<hash_path_mapping, todo>>
       ELSE /\ pc' = "hash"
            /\ hash_path_mapping' = EmptyMap
            /\ todo' = ContractPairs(Unwrap(output.contracts))
    /\ UNCHANGED <<output, pipeline, libraries, debug_config, project_contracts,
                   result, previous, output0, calls>>

\* One iteration of the loop at lines 171-186.
HashStep ==
    /\ pc = "hash"
    /\ todo /= <<>>
    /\ LET path == Head(todo)[1]
           name == Head(todo)[2]
       IN hash_path_mapping' =
            HashCollect(hash_path_mapping, path, name,
                        Unwrap(output.contracts)[path][name])
    /\ todo' = Tail(todo)
    /\ UNCHANGED <<output, pc, pipeline, libraries, debug_config, project_contracts,
                   result, previous, output0, calls>>

\* The first loop is over: the second one starts (line 188).
HashDone ==
    /\ pc = "hash"
    /\ todo = <<>>
    /\ pc' = "rewrite"
    /\ todo' = ContractPairs(Unwrap(output.contracts))
    /\ UNCHANGED <<output, pipeline, libraries, debug_config, hash_path_mapping,
                   project_contracts, result, previous, output0, calls>>

\* One iteration of the loop at lines 188-202.
RewriteStep ==
    /\ pc = "rewrite"
    /\ todo /= <<>>
    /\ LET path == Head(todo)[1]
           name == Head(todo)[2]
           files == Unwrap(output.contracts)
           assembly == ContractAssembly(files[path][name])
       IN IF assembly = None
          THEN /\ todo' = Tail(todo)
               /\ UNCHANGED <<output, pc, pipeline, libraries, debug_config,
                              hash_path_mapping, project_contracts, result>>
          ELSE LET level == preprocess_dependency_level(
                                FullPath(path, name), Unwrap(assembly), hash_path_mapping)
               IN /\ output' = [output EXCEPT !.contracts =
                                    Some(WithAssembly(files, path, name, level.assembly))]
                  /\ IF level.ok
                     THEN /\ todo' = Tail(todo)
                          /\ UNCHANGED <<pc, pipeline, libraries, debug_config,
                                         hash_path_mapping, project_contracts, result>>
                     ELSE Return(Failure(level.error))
    /\ UNCHANGED <<previous, output0, calls>>

\* preprocess_dependencies returns Ok (line 204).
RewriteDone ==
    /\ pc = "rewrite"
    /\ todo = <<>>
    /\ pc' = "files"
    /\ UNCHANGED <<output, pipeline, libraries, debug_config, hash_path_mapping,
                   todo, project_contracts, result, previous, output0, calls>>

\* Lines 67-79: no `contracts` is fatal, otherwise the extraction starts.
Files ==
    /\ pc = "files"
    /\ IF output.contracts = None
       THEN Return(Failure([kind |-> "MissingContracts",
                            message |-> MissingContractsMessage(output.errors)]))
       ELSE /\ pc' = "extract"
            /\ project_contracts' = EmptyMap
            /\ todo' = ContractPairs(Unwrap(output.contracts))
            /\ UNCHANGED <<pipeline, libraries, debug_config, hash_path_mapping, result>>
    /\ UNCHANGED <<output, previous, output0, calls>>

\* One iteration of the loop at lines 81-121.
ExtractStep ==
    /\ pc = "extract"
    /\ todo /= <<>>
    /\ LET path == Head(todo)[1]
           name == Head(todo)[2]
           files == Unwrap(output.contracts)
           step == ExtractContract(pipeline, debug_config, path, name, files[path][name])
       IN /\ output' = [output EXCEPT !.contracts =
                            Some([files EXCEPT ![path][name] = step.contract])]
          /\ IF step.kind = "error"
             THEN Return(Failure(step.error))
             ELSE /\ todo' = Tail(todo)
                  /\ project_contracts' =
                        IF step.kind = "insert"
                        THEN MapInsert(project_contracts, step.key, step.value)
                        ELSE project_contracts
                  /\ UNCHANGED <<pc, pipeline, libraries, debug_config,
                                 hash_path_mapping, result>>
    /\ UNCHANGED <<previous, output0, calls>>

\* Lines 123-127: Ok(Project::new(..)).
ExtractDone ==
    /\ pc = "extract"
    /\ todo = <<>>
    /\ Return([op |-> "try_to_project", pipeline |-> pipeline, ok |-> TRUE,
               project |-> [contracts |-> project_contracts,
                            libraries |-> libraries]])
    /\ UNCHANGED <<output, previous, output0, calls>>

\* preprocess_ast is called and runs to its end.
PreprocessAst ==
    /\ pc = "idle"
    /\ calls < MaxCalls
    /\ calls' = calls + 1
    /\ output0' = output
    /\ LET done == preprocess_ast(output)
       IN /\ output' = done.output
          /\ result' = IF done.ok
                       THEN [op |-> "preprocess_ast", pipeline |-> "none", ok |-> TRUE]
                       ELSE [op |-> "preprocess_ast", pipeline |-> "none", ok |-> FALSE,
                             error |-> done.error]
    /\ previous' = Summary(result)
    /\ UNCHANGED <<pc, pipeline, libraries, debug_config, hash_path_mapping,
                   todo, project_contracts>>

Next ==
    \/ \E pipe \in Pipelines, libs \in Libraries, debug \in DebugConfigs :
            \* debug_config is read in the Yul branch only (line 95)
            /\ pipe = "EVMLA" => debug = "none"
            /\ TryToProject(pipe, libs, debug)
    \/ PreprocessDependencies
    \/ HashStep
    \/ HashDone
    \/ RewriteStep
    \/ RewriteDone
    \/ Files
    \/ ExtractStep
    \/ ExtractDone
    \/ PreprocessAst

Spec == Init /\ [][Next]_vars

----------------------------------------------------------------------------
(* Vocabulary of the properties *)

Files0 == Unwrap(output0.contracts)
FilesNow == Unwrap(output.contracts)

PairSet(files) == UNION {{<<path, name>> : name \in DOMAIN files[path]} : path \in DOMAIN files}

Assembly0(p) == ContractAssembly(Files0[p[1]][p[2]])
AssemblyNow(p) == ContractAssembly(FilesNow[p[1]][p[2]])

\* The contracts of the report that had an assembly when the call started.
WithAssembly0 == {p \in PairSet(Files0) : Assembly0(p) /= None}

Hash0(p) == keccak256(Unwrap(Assembly0(p)))

\* The contract visited last among those whose assembly hashes to `hash`.
LastWithHash(hash) ==
    CHOOSE p \in WithAssembly0 :
        /\ Hash0(p) = hash
        /\ \A q \in WithAssembly0 : Hash0(q) = hash => (q = p \/ PairLess(q, p))

\* The hash to path table the report determines.
ExpectedMapping ==
    [hash \in {Hash0(p) : p \in WithAssembly0} |->
        LET last == LastWithHash(hash) IN FullPath(last[1], last[2])]

RuntimeCode(assembly) ==
    IF RuntimeAssembly(assembly) = None THEN None
    ELSE Unwrap(RuntimeAssembly(assembly)).code

RuntimeData(assembly) ==
    IF RuntimeAssembly(assembly) = None THEN None
    ELSE Unwrap(RuntimeAssembly(assembly)).data

Finished(op, pipe) ==
    pc = "idle" /\ result.op = op /\ result.pipeline = pipe

\* The resolver has returned Ok for a report that has contracts.
Resolved ==
    /\ output0.contracts /= None
    /\ \/ pipeline = "EVMLA" /\ pc \in {"files", "extract"}
       \/ Finished("try_to_project", "EVMLA") /\ result.ok

\* The resolver has returned an unresolved-dependency error.
ResolveFailed ==
    /\ Finished("try_to_project", "EVMLA")
    /\ ~result.ok
    /\ result.error.kind = "UnresolvedDependency"

\* The data-alias instructions of `code` that refer to key `key`.
AliasesOf(code, key) ==
    IF code = None THEN {}
    ELSE {i \in DOMAIN Unwrap(code) :
            IsDataAlias(Unwrap(code)[i]) /\ Unwrap(Unwrap(code)[i].value) = key}

\* The keys of `data` that hold a nested assembly.
NestedKeys(data) ==
    IF data = None THEN {} ELSE {k \in DOMAIN Unwrap(data) : IsAssembly(Unwrap(data)[k])}

----------------------------------------------------------------------------
(* C1 *)

\* C1: when the resolver fails on an unresolved hash, the error names that
\* hash and the owning contract, and neither the deploy code nor the runtime
\* code of that contract has been rewritten.
C1_NoPartialRewrite ==
    ResolveFailed =>
        \E p \in WithAssembly0 :
            /\ result.error.path = FullPath(p[1], p[2])
            /\ result.error.hash \notin DOMAIN ExpectedMapping
            /\ Unwrap(AssemblyNow(p)).code = Unwrap(Assembly0(p)).code
            /\ RuntimeCode(Unwrap(AssemblyNow(p))) = RuntimeCode(Unwrap(Assembly0(p)))

----------------------------------------------------------------------------
(* C2 *)

\* C2 as stated: after a successful resolve, every data-alias instruction of
\* A's deploy code that refers to a key K holding a nested assembly with the
\* hash of contract B's assembly has B's full path as its operand.
C2_AnyMatchingContract ==
    Resolved =>
        \A a \in WithAssembly0 :
            LET before == Unwrap(Assembly0(a))
                after == Unwrap(AssemblyNow(a))
            IN \A k \in NestedKeys(before.data) :
                 \A i \in AliasesOf(before.code, k) :
                   \A b \in WithAssembly0 :
                      keccak256(Unwrap(before.data)[k].assembly) = Hash0(b)
                        => Unwrap(after.code)[i].value = Some(FullPath(b[1], b[2]))

\* C2 amended: the same for every key K other than the runtime slot, with B
\* the contract visited last among those whose assembly has that hash.
C2_LastMatchingContract ==
    Resolved =>
        \A a \in WithAssembly0 :
            LET before == Unwrap(Assembly0(a))
                after == Unwrap(AssemblyNow(a))
            IN \A k \in NestedKeys(before.data) \ {RuntimeKey} :
                 \A i \in AliasesOf(before.code, k) :
                   \A b \in WithAssembly0 :
                      /\ keccak256(Unwrap(before.data)[k].assembly) = Hash0(b)
                      /\ b = LastWithHash(Hash0(b))
                      => Unwrap(after.code)[i].value = Some(FullPath(b[1], b[2]))

\* A resolved report where a contract placed before its dependency and one
\* placed after it both have the dependency's path in their deploy code.
C2_Witness ==
    /\ Resolved
    /\ \E a, b, c \in WithAssembly0 :
        /\ PairLess(a, b) /\ PairLess(b, c)
        /\ \A x \in {a, c} : \E k \in NestedKeys(Unwrap(Assembly0(x)).data) \ {RuntimeKey} :
            /\ keccak256(Unwrap(Unwrap(Assembly0(x)).data)[k].assembly) = Hash0(b)
            /\ \E i \in AliasesOf(Unwrap(Assembly0(x)).code, k) :
                 Unwrap(Unwrap(AssemblyNow(x)).code)[i].value = Some(FullPath(b[1], b[2]))

----------------------------------------------------------------------------
(* C3 *)

\* C3: try_to_project on a report without `contracts` returns an error and no
\* project, under either pipeline; the message is the pretty-printed JSON of
\* `errors` when present and the generic message otherwise.
C3_FatalAbsence ==
    (pc = "idle" /\ result.op = "try_to_project" /\ output0.contracts = None) =>
        /\ ~result.ok
        /\ "project" \notin DOMAIN result
        /\ result.error.kind = "MissingContracts"
        /\ result.error.message =
              IF output0.errors = None
              THEN [text |-> "Unknown project assembling error"]
              ELSE [json_pretty |-> Unwrap(output0.errors)]

\* The EVMLA pipeline has failed on a report with diagnostics and no contracts.
C3_Witness ==
    /\ Finished("try_to_project", "EVMLA")
    /\ output0.contracts = None
    /\ output0.errors /= None
    /\ Len(Unwrap(output0.errors)) = 2
    /\ ~result.ok

----------------------------------------------------------------------------
(* C4 *)

\* Whether the pipeline extracts a source from the contract.
Extracted(pipe, contract) ==
    IF pipe = "Yul"
    THEN contract.ir_optimized /= None /\ Unwrap(contract.ir_optimized) /= ""
    ELSE contract.evm /= None /\ Unwrap(contract.evm).assembly /= None

\* C4: after a successful try_to_project the project has an entry "file:name"
\* exactly for the contracts with a non-empty ir_optimized (Yul) or with an
\* assembly (EVMLA); a skipped contract raises no error: a failure names a
\* contract that is not skipped (Yul) or comes from resolving a contract that
\* has an assembly (EVMLA).
C4_SkipConditions ==
    \A pipe \in Pipelines :
        (Finished("try_to_project", pipe) /\ output0.contracts /= None) =>
            IF result.ok
            THEN DOMAIN result.project.contracts =
                    {FullPath(p[1], p[2]) :
                        p \in {q \in PairSet(Files0) : Extracted(pipe, Files0[q[1]][q[2]])}}
            ELSE IF pipe = "Yul"
                 THEN \E p \in PairSet(Files0) :
                        /\ Extracted(pipe, Files0[p[1]][p[2]])
                        /\ result.error.path = FullPath(p[1], p[2])
                 ELSE /\ WithAssembly0 /= {}
                      /\ result.error.kind \in {"UnresolvedDependency", "RewriteError"}

\* A Yul project of one contract from a report of three: one without
\* ir_optimized, one with the empty text.
C4_Witness ==
    /\ Finished("try_to_project", "Yul")
    /\ result.ok
    /\ Cardinality(DOMAIN result.project.contracts) = 1
    /\ \E a, b \in PairSet(Files0) :
        /\ Files0[a[1]][a[2]].ir_optimized = None
        /\ Files0[b[1]][b[2]].ir_optimized = Some("")

----------------------------------------------------------------------------
(* C5 *)

\* `after` is `before` with nothing changed but operands of data aliases
\* whose key is in `mapping`.
OnlyAliasesRewritten(before, after, mapping) ==
    IF before = None THEN after = None
    ELSE /\ after /= None
         /\ Len(Unwrap(after)) = Len(Unwrap(before))
         /\ \A i \in DOMAIN Unwrap(before) :
              \/ Unwrap(after)[i] = Unwrap(before)[i]
              \/ /\ IsDataAlias(Unwrap(before)[i])
                 /\ Unwrap(Unwrap(before)[i].value) \in DOMAIN mapping
                 /\ Unwrap(after)[i].name = Unwrap(before)[i].name

\* No nested assembly besides the runtime slot, no raw entry with a known hash.
NoDependencyEntries(data, table) ==
    \/ data = None
    \/ \A k \in DOMAIN Unwrap(data) :
         IF IsAssembly(Unwrap(data)[k]) THEN k = RuntimeKey
         ELSE Unwrap(data)[k].hash \notin DOMAIN table

MappingOf(pass) == IF pass.ok THEN pass.mapping ELSE EmptyMap

\* The resolver is rewriting, or has returned (Ok or Err), for a report with
\* contracts.
Resolving ==
    /\ output0.contracts /= None
    /\ \/ pipeline = "EVMLA" /\ pc \in {"rewrite", "files", "extract"}
       \/ Finished("try_to_project", "EVMLA")

\* C5: the rewrite keeps the length and order of every code body and changes
\* only data aliases whose key is in the local mapping of its pass; a data
\* section without dependency entries gives an empty mapping and unchanged code.
C5_RewritePreserves ==
    Resolving =>
      LET table == ExpectedMapping
      IN
        \A p \in WithAssembly0 :
            LET before == Unwrap(Assembly0(p))
                after == Unwrap(AssemblyNow(p))
                full_path == FullPath(p[1], p[2])
                deploy == deploy_dependencies_pass(before, full_path, table)
                runtime == runtime_dependencies_pass(before, full_path, table)
            IN /\ OnlyAliasesRewritten(before.code, after.code, MappingOf(deploy))
               /\ OnlyAliasesRewritten(RuntimeCode(before), RuntimeCode(after),
                                       MappingOf(runtime))
               /\ NoDependencyEntries(before.data, table) =>
                    deploy.ok /\ deploy.mapping = EmptyMap /\ after.code = before.code
               /\ NoDependencyEntries(RuntimeData(before), table) =>
                    /\ runtime.ok /\ runtime.mapping = EmptyMap
                    /\ RuntimeCode(after) = RuntimeCode(before)

\* A resolved report with a deploy code of which one alias was rewritten and
\* another left alone, and a contract without dependencies that has aliases.
C5_Witness ==
    /\ Resolved
    /\ \E p \in WithAssembly0 :
        LET before == Unwrap(Assembly0(p)).code
            after == Unwrap(AssemblyNow(p)).code
        IN /\ before /= None
           /\ \E i, j \in DOMAIN Unwrap(before) :
                /\ IsDataAlias(Unwrap(before)[i]) /\ Unwrap(after)[i] /= Unwrap(before)[i]
                /\ IsDataAlias(Unwrap(before)[j]) /\ Unwrap(after)[j] = Unwrap(before)[j]
    /\ \E p \in WithAssembly0 :
        /\ NoDependencyEntries(Unwrap(Assembly0(p)).data, ExpectedMapping)
        /\ AliasesOf(Unwrap(Assembly0(p)).code, Key1) /= {}

----------------------------------------------------------------------------
(* C6 *)

RECURSIVE TaggedMessages(_, _)
\* The messages of the sources that have an AST, in path order, each tagged
\* with its path.
TaggedMessages(paths, sources) ==
    IF paths = <<>> THEN <<>>
    ELSE LET ast == sources[Head(paths)].ast
         IN (IF ast = None THEN <<>>
             ELSE [i \in DOMAIN Unwrap(ast).messages |->
                     [message |-> Unwrap(ast).messages[i].message,
                      contract_path |-> Some(Head(paths))]])
            \o TaggedMessages(Tail(paths), sources)

\* C6: preprocess_ast without `sources` succeeds and changes nothing; with
\* `sources`, on success, `errors` is the prior list (empty if absent)
\* followed by the tagged messages, and `contracts` and `sources` are unchanged.
C6_OnlyAppends ==
    Finished("preprocess_ast", "none") =>
        /\ output0.sources = None => result.ok /\ output = output0
        /\ (output0.sources /= None /\ result.ok) =>
            /\ output.errors =
                 Some((IF output0.errors = None THEN <<>> ELSE Unwrap(output0.errors))
                      \o TaggedMessages(SortedKeys(DOMAIN Unwrap(output0.sources)),
                                        Unwrap(output0.sources)))
            /\ output.contracts = output0.contracts
            /\ output.sources = output0.sources

\* Two prior diagnostics, two sources with an AST: four diagnostics.
C6_Witness ==
    /\ Finished("preprocess_ast", "none")
    /\ result.ok
    /\ output0.errors /= None
    /\ Len(Unwrap(output0.errors)) = 2
    /\ Len(Unwrap(output.errors)) = 4
    /\ Unwrap(output.errors)[3].contract_path /= Unwrap(output.errors)[4].contract_path

----------------------------------------------------------------------------
(* C7 *)

YulSucceeded == [op |-> "try_to_project", pipeline |-> "Yul", ok |-> TRUE]

\* C7: after a successful Yul try_to_project no contract of the report and no
\* contract handed to the project carries ir_optimized; a Yul try_to_project
\* right after a successful one succeeds with an empty contract map; the EVMLA
\* pipeline leaves every ir_optimized as it was.
C7_ConsumedOnce ==
    /\ (Finished("try_to_project", "Yul") /\ result.ok) =>
        /\ \A p \in PairSet(FilesNow) : FilesNow[p[1]][p[2]].ir_optimized = None
        /\ \A k \in DOMAIN result.project.contracts :
              result.project.contracts[k].contract.ir_optimized = None
    /\ (Finished("try_to_project", "Yul")
            /\ [op |-> previous.op, pipeline |-> previous.pipeline, ok |-> previous.ok]
                = YulSucceeded) =>
        result.ok /\ result.project.contracts = EmptyMap
    /\ ((pipeline = "EVMLA" \/ Finished("try_to_project", "EVMLA"))
            /\ output0.contracts /= None) =>
        \A p \in PairSet(Files0) :
            FilesNow[p[1]][p[2]].ir_optimized = Files0[p[1]][p[2]].ir_optimized

\* A second Yul call that found nothing after a first one that built a
\* project of two contracts and skipped one.
C7_Witness ==
    /\ Finished("try_to_project", "Yul")
    /\ result.ok
    /\ previous.op = "try_to_project" /\ previous.pipeline = "Yul" /\ previous.ok
    /\ previous.entries = 2
    /\ Cardinality(PairSet(FilesNow)) = 3
    /\ result.project.contracts = EmptyMap

----------------------------------------------------------------------------
(* C8 *)

\* C8: while contracts are rewritten the table has an entry for every contract
\* that had an assembly, under the hash of the assembly as it was when the
\* call started, and it does not change; while the table is built nothing is
\* rewritten, and building never resumes after rewriting has started.
C8_BuildOnceFreezeThenRead ==
    [][ /\ pc = "rewrite" =>
            \A p \in WithAssembly0 :
                /\ Hash0(p) \in DOMAIN hash_path_mapping
                /\ \E q \in WithAssembly0 :
                     /\ Hash0(q) = Hash0(p)
                     /\ hash_path_mapping[Hash0(p)] = FullPath(q[1], q[2])
        /\ (pc = "rewrite" /\ pc' = "rewrite") => hash_path_mapping' = hash_path_mapping
        /\ pc = "hash" => output = output0 /\ output' = output0
        /\ pc = "rewrite" => pc' /= "hash"
      ]_vars

\* Rewriting is under way in a report of three contracts with assemblies.
C8_Witness ==
    /\ pc = "rewrite"
    /\ todo /= <<>>
    /\ output /= output0
    /\ Cardinality(WithAssembly0) = 3
    /\ Cardinality(DOMAIN hash_path_mapping) = 3

----------------------------------------------------------------------------
(* C9 *)

\* preprocess_dependency_level with the runtime pass and its rewrite first.
RuntimeFirst(full_path, assembly, mapping) ==
    LET named == set_full_path(assembly, full_path)
        runtime == runtime_dependencies_pass(named, full_path, mapping)
    IN IF ~runtime.ok
       THEN [ok |-> FALSE, error |-> runtime.error, assembly |-> named]
       ELSE LET rewritten == RewriteRuntimeCode(named, runtime.mapping)
            IN IF ~rewritten.ok THEN rewritten
               ELSE LET deploy == deploy_dependencies_pass(rewritten.assembly,
                                                           full_path, mapping)
                    IN IF ~deploy.ok
                       THEN [ok |-> FALSE, error |-> deploy.error,
                             assembly |-> rewritten.assembly]
                       ELSE RewriteDeployCode(rewritten.assembly, deploy.mapping)

\* C9: for the contract the rewrite loop is about to visit, the runtime pass
\* first and the deploy pass first give the same outcome and the same assembly.
C9_EitherOrder ==
    (pc = "rewrite" /\ todo /= <<>> /\ AssemblyNow(Head(todo)) /= None) =>
        LET full_path == FullPath(Head(todo)[1], Head(todo)[2])
            assembly == Unwrap(AssemblyNow(Head(todo)))
            code_order == preprocess_dependency_level(full_path, assembly, hash_path_mapping)
            other_order == RuntimeFirst(full_path, assembly, hash_path_mapping)
        IN /\ code_order.ok = other_order.ok
           /\ code_order.assembly = other_order.assembly

----------------------------------------------------------------------------
(* C10 *)

\* The aliases of `code` that refer to a nested assembly of `data` outside
\* the runtime slot have as operand the one path of that assembly's hash.
DependenciesResolved(code, data, after, table) ==
    \A k \in NestedKeys(data) \ {RuntimeKey} :
        \A i \in AliasesOf(code, k) :
            LET hash == keccak256(Unwrap(data)[k].assembly)
            IN /\ hash \in DOMAIN table
               /\ Unwrap(after)[i].value = Some(table[hash])

\* C10: the table holds for each hash the path of the contract visited last
\* among those with that hash; equal hashes raise no error (a failure names a
\* hash no contract has); every dependency on a hash, in deploy and runtime
\* code of every contract, resolves to that one path.
C10_LastWriteWins ==
    /\ (output0.contracts /= None /\ pipeline = "EVMLA"
            /\ pc \in {"rewrite", "files", "extract"}) =>
        hash_path_mapping = ExpectedMapping
    /\ ResolveFailed => result.error.hash \notin DOMAIN ExpectedMapping
    /\ Resolved =>
        LET table == ExpectedMapping
        IN \A p \in WithAssembly0 :
            LET before == Unwrap(Assembly0(p))
                after == Unwrap(AssemblyNow(p))
            IN /\ DependenciesResolved(before.code, before.data, after.code, table)
               /\ DependenciesResolved(RuntimeCode(before), RuntimeData(before),
                                       RuntimeCode(after), table)

\* A resolved report with two contracts of one hash and a third whose deploy
\* code now names the later of the two.
C10_Witness ==
    /\ Resolved
    /\ \E a, b, c \in WithAssembly0 :
        /\ PairLess(a, b)
        /\ Hash0(a) = Hash0(b)
        /\ \E k \in NestedKeys(Unwrap(Assembly0(c)).data) \ {RuntimeKey} :
            /\ keccak256(Unwrap(Unwrap(Assembly0(c)).data)[k].assembly) = Hash0(a)
            /\ \E i \in AliasesOf(Unwrap(Assembly0(c)).code, k) :
                 Unwrap(Unwrap(AssemblyNow(c)).code)[i].value = Some(FullPath(b[1], b[2]))

====
